---- MODULE Spec2Model ----
(***************************************************************************)
(* Model of price_monitor.py: the PriceMonitor class (fetch_page,          *)
(* extract_price, the three scrape_* adapters, load_from_file, run,        *)
(* display_results, save_to_json) and main.                                *)
(*                                                                         *)
(* Text is a sequence of one-character strings.  A price is a number of    *)
(* cents (the decimal value times 100), so 1299.99 is 129999.              *)
(***************************************************************************)
EXTENDS Integers, Sequences, FiniteSets, TLC

VARIABLES
    pc,          \* position of main: "main", "loop", "get", "fragments",
                 \* "display", "save", "done", "crashed"; "unit" in SpecPrice
    sample,      \* args.sample
    web,         \* the candidate listing fragments of the page the servers serve
    file,        \* content of sample_products.json
    retailer,    \* which scrape_* is running (index into Retailers)
    cat,         \* index of the current item of category_urls
    attempts,    \* requests the running session.get has sent (0 outside it)
    status,      \* last answer session.get received ("" before the first)
    diag,        \* diagnostic the last fetch_page printed to stderr
    fetched,     \* log of fetch_page calls: [url, ok]
    soup,        \* products[:10] is taken from it: the page's candidate fragments
    k,           \* index of the fragment the for loop is at
    prices,      \* local variable prices of the scrape loop
    products,    \* self.products
    saved,       \* content written to products.json
    exitCode,    \* process exit status (-1 while running)
    price_text,  \* argument of the last extract_price call
    price        \* what that call returned

vars == <<pc, sample, web, file, retailer, cat, attempts, status, diag, fetched,
          soup, k, prices, products, saved, exitCode, price_text, price>>

-----------------------------------------------------------------------------
(* Values: Python/JSON values of the kinds the program meets.               *)

Null == [t |-> "null", s |-> "", n |-> 0]
Num(c) == [t |-> "num", s |-> "", n |-> c]
Str(x) == [t |-> "str", s |-> x, n |-> 0]
Absent == [t |-> "absent", s |-> "", n |-> 0]

\* sample_products.json when there is no such file
NoFile == [st |-> "missing", top |-> "", items |-> <<>>]

Digits == {"0", "1", "2", "3", "4", "5", "6", "7", "8", "9"}
Whitespace == {" "}

DigitVal(c) ==
    CASE c = "0" -> 0 [] c = "1" -> 1 [] c = "2" -> 2 [] c = "3" -> 3
      [] c = "4" -> 4 [] c = "5" -> 5 [] c = "6" -> 6 [] c = "7" -> 7
      [] c = "8" -> 8 [] c = "9" -> 9

DigitChar(d) ==
    CASE d = 0 -> "0" [] d = 1 -> "1" [] d = 2 -> "2" [] d = 3 -> "3"
      [] d = 4 -> "4" [] d = 5 -> "5" [] d = 6 -> "6" [] d = 7 -> "7"
      [] d = 8 -> "8" [] d = 9 -> "9"

-----------------------------------------------------------------------------
(* extract_price                                                            *)

\* str.replace(',', '')
RemoveCommas(t) == SelectSeq(t, LAMBDA c : c # ",")

IsDigitAt(t, i) == i >= 1 /\ i <= Len(t) /\ t[i] \in Digits

\* \d{1,3} from position i, greedy: the position after the run
RECURSIVE DigitRun(_, _, _)
DigitRun(t, i, left) ==
    IF left > 0 /\ IsDigitAt(t, i) THEN DigitRun(t, i + 1, left - 1) ELSE i

\* (?:,\d{3})* from position i, greedy: the position after the groups
RECURSIVE CommaGroups(_, _)
CommaGroups(t, i) ==
    IF i <= Len(t) /\ t[i] = "," /\ IsDigitAt(t, i + 1) /\ IsDigitAt(t, i + 2)
       /\ IsDigitAt(t, i + 3)
    THEN CommaGroups(t, i + 4)
    ELSE i

\* (?:\.\d{2})? from position i: the position after it
Fraction(t, i) ==
    IF i <= Len(t) /\ t[i] = "." /\ IsDigitAt(t, i + 1) /\ IsDigitAt(t, i + 2)
    THEN i + 3
    ELSE i

\* \s* from position i, greedy
RECURSIVE SkipSpace(_, _)
SkipSpace(t, i) ==
    IF i <= Len(t) /\ t[i] \in Whitespace THEN SkipSpace(t, i + 1) ELSE i

\* The pattern [\$]?\s*(\d{1,3}(?:,\d{3})*(?:\.\d{2})?) tried at position i:
\* <<>> when it does not match there, else <<group 1>>.  Giving up the
\* optional "$" or some of the whitespace never helps: the next character
\* would then have to be a digit.
MatchAt(t, i) ==
    LET a == IF i <= Len(t) /\ t[i] = "$" THEN i + 1 ELSE i
        b == SkipSpace(t, a)
    IN  IF ~IsDigitAt(t, b) THEN <<>>
        ELSE LET c == DigitRun(t, b, 3)
                 d == CommaGroups(t, c)
                 e == Fraction(t, d)
             IN  <<SubSeq(t, b, e - 1)>>

\* re.search: the match at the leftmost position that has one
RECURSIVE Search(_, _)
Search(t, i) ==
    IF i > Len(t) THEN <<>>
    ELSE IF MatchAt(t, i) # <<>> THEN MatchAt(t, i)
    ELSE Search(t, i + 1)

\* int of a digit string
RECURSIVE IntOf(_)
IntOf(t) ==
    IF t = <<>> THEN 0
    ELSE 10 * IntOf(SubSeq(t, 1, Len(t) - 1)) + DigitVal(t[Len(t)])

\* float() of the matched group (digits, optionally "." and two digits), in cents
FloatOf(g) ==
    IF Len(g) >= 3 /\ g[Len(g) - 2] = "."
    THEN 100 * IntOf(SubSeq(g, 1, Len(g) - 3)) + IntOf(SubSeq(g, Len(g) - 1, Len(g)))
    ELSE 100 * IntOf(g)

\* The text the pattern is searched in (line 87)
Searched(price_text0) == RemoveCommas(price_text0)

extract_price(price_text0) ==
    IF price_text0 = <<>> THEN Null
    ELSE LET price_match == Search(Searched(price_text0), 1)
         IN  IF price_match # <<>>
             THEN Num(FloatOf(RemoveCommas(price_match[1])))
             ELSE Null

-----------------------------------------------------------------------------
(* Price texts: how the retailers' pages write a price.                     *)

MaxDigits == 4

RECURSIVE Pow10(_)
Pow10(d) == IF d = 0 THEN 1 ELSE 10 * Pow10(d - 1)

RECURSIVE ToDigits(_)
ToDigits(n) ==
    IF n < 10 THEN <<DigitChar(n)>>
    ELSE Append(ToDigits(n \div 10), DigitChar(n % 10))

\* Comma thousands separators: one before every group of three from the right
RECURSIVE Grouped(_)
Grouped(ds) ==
    IF Len(ds) <= 3 THEN ds
    ELSE Grouped(SubSeq(ds, 1, Len(ds) - 3)) \o <<",">>
         \o SubSeq(ds, Len(ds) - 2, Len(ds))

\* The text of a well-formed decimal number: integer part n, cents c (<<>>
\* for no decimal fraction, else <<the cents>>), an optional leading "$",
\* optional comma thousands separators
WellFormed(n, c, dollar, commas) ==
    (IF dollar THEN <<"$">> ELSE <<>>)
    \o (IF commas THEN Grouped(ToDigits(n)) ELSE ToDigits(n))
    \o (IF c = <<>> THEN <<>>
        ELSE <<".", DigitChar(c[1] \div 10), DigitChar(c[1] % 10)>>)

\* The number such a text denotes, in cents
Denoted(n, c) == 100 * n + (IF c = <<>> THEN 0 ELSE c[1])

\* "$1,299.99" is Dollars(1299, 99); "$899" is Whole(899)
Dollars(n, c) == WellFormed(n, <<c>>, TRUE, TRUE)
Whole(n) == WellFormed(n, <<>>, TRUE, TRUE)

IntParts ==
    {0, 7, 42, 129, 899, 1299}
    \cup {Pow10(d - 1) : d \in 1..MaxDigits}
    \cup {Pow10(d) - 1 : d \in 1..MaxDigits}

CentParts == {<<>>, <<0>>, <<5>>, <<99>>}

WellFormedInputs ==
    [n : IntParts, c : CentParts, dollar : BOOLEAN, commas : BOOLEAN]

TextOf(inp) == WellFormed(inp.n, inp.c, inp.dollar, inp.commas)

\* Texts that are not one well-formed number
OtherTexts ==
    { <<>>,
      <<"C", "a", "l", "l">>,
      <<"$", " ", "9", "9", ".", "9", "9">>,
      <<"$", "5", " ", "$", "3">>,
      <<"a", "1", "2">>,
      <<"1", ".", "5">>,
      <<"$">>,
      <<",", ",">> }

PriceTexts == {TextOf(inp) : inp \in WellFormedInputs} \cup OtherTexts

-----------------------------------------------------------------------------
(* The unit specification of extract_price.                                 *)

InitPrice ==
    /\ pc = "unit"
    /\ sample = FALSE
    /\ web = <<>>
    /\ file = NoFile
    /\ retailer = 1
    /\ cat = 1
    /\ attempts = 0
    /\ status = ""
    /\ diag = ""
    /\ fetched = <<>>
    /\ soup = <<>>
    /\ k = 1
    /\ prices = <<>>
    /\ products = <<>>
    /\ saved = <<>>
    /\ exitCode = -1
    /\ price_text \in PriceTexts
    /\ price = Absent

ExtractPrice ==
    /\ pc = "unit"
    /\ price = Absent
    /\ price' = extract_price(price_text)
    /\ UNCHANGED <<pc, sample, web, file, retailer, cat, attempts, status, diag,
                   fetched, soup, k, prices, products, saved, exitCode,
                   price_text>>

NextPrice == ExtractPrice

SpecPrice == InitPrice /\ [][NextPrice]_vars

\* C1: for every text that is one well-formed decimal number (optional "$",
\* optional comma thousands separators), extract_price returns that number.
C1_ExtractsWellFormedNumber ==
    \A inp \in WellFormedInputs :
        (price_text = TextOf(inp) /\ price # Absent)
            => price = Num(Denoted(inp.n, inp.c))

-----------------------------------------------------------------------------
(* Product records and the collection.                                      *)

Keys == {"Product", "Brand", "Category", "MSRP", "Sale Price"}

\* self.categories
categories ==
    {"Treadmills", "Indoor Cycling Bikes", "Home Gyms",
     "Ellipticals and Max Trainer", "Adjustable Dumbbells"}

\* An element of self.products: a dict over Keys (Absent for a key it lacks),
\* or, after load_from_file, some other JSON value
Dict(product, brand, category, msrp, sale_price) ==
    [kind |-> "dict",
     f |-> [key \in Keys |->
              CASE key = "Product" -> product
                [] key = "Brand" -> brand
                [] key = "Category" -> category
                [] key = "MSRP" -> msrp
                [] key = "Sale Price" -> sale_price]]

Scalar(kind) == [kind |-> kind, f |-> [key \in Keys |-> Absent]]

Last(s) == s[Len(s)]

RECURSIVE Max(_)
Max(s) ==
    IF Len(s) = 1 THEN s[1]
    ELSE LET m == Max(Tail(s)) IN IF s[1] >= m THEN s[1] ELSE m

RECURSIVE Min(_)
Min(s) ==
    IF Len(s) = 1 THEN s[1]
    ELSE LET m == Min(Tail(s)) IN IF s[1] <= m THEN s[1] ELSE m

-----------------------------------------------------------------------------
(* The scrape loop body (scrape_bowflex, scrape_horizon, scrape_schwinn).   *)

\* for product in products[:10]
Limit == 10

\* Variant of Candidates: the slice is missing
CandidatesUncapped(page) == page

Candidates(page) ==
    SubSeq(page, 1, IF Len(page) < Limit THEN Len(page) ELSE Limit)

\* product.find(heading or link with a title|name|product class), else
\* product.find('a'): <<>> for None, else <<the element's text>>
NameElem(fragment) ==
    IF fragment.titled # <<>> THEN fragment.titled ELSE fragment.link

\* if price:
Truthy(p) == p.t = "num" /\ p.n # 0

\* The for loop over price_elems: the prices it appends, in document order
RECURSIVE CollectPrices(_)
CollectPrices(price_elems) ==
    IF price_elems = <<>> THEN <<>>
    ELSE LET p == extract_price(Head(price_elems))
         IN  (IF Truthy(p) THEN <<p.n>> ELSE <<>>)
             \o CollectPrices(Tail(price_elems))

\* 'Sale Price': sale_price if len(prices) > 1 else None
SalePrice(ps) == IF Len(ps) > 1 THEN Num(Min(ps)) ELSE Null

\* Variant of Msrp: the first price found instead of the largest
MsrpFirst(ps) == Num(ps[1])

\* 'MSRP': msrp if len(prices) > 1 else msrp
Msrp(ps) == Num(Max(ps))

\* The dict the loop body appends
Record(product_name, brand, category, ps) ==
    Dict(Str(product_name), Str(brand), Str(category), Msrp(ps), SalePrice(ps))

\* Whether the try body reaches self.products.append for this fragment
Appends(fragment) ==
    /\ fragment.raises = ""
    /\ NameElem(fragment) # <<>>
    /\ CollectPrices(fragment.price_elems) # <<>>

\* Variant of AfterFragment: the test "if prices:" is missing
AfterFragmentUnguarded(coll, fragment, brand, category) ==
    IF fragment.raises = "" /\ NameElem(fragment) # <<>>
    THEN LET ps == CollectPrices(fragment.price_elems)
         IN  Append(coll,
                    IF ps = <<>>
                    THEN Dict(Str(NameElem(fragment)[1]), Str(brand),
                              Str(category), Null, Null)
                    ELSE Record(NameElem(fragment)[1], brand, category, ps))
    ELSE coll

\* self.products after one iteration of the loop body
AfterFragment(coll, fragment, brand, category) ==
    IF Appends(fragment)
    THEN Append(coll, Record(NameElem(fragment)[1], brand, category,
                             CollectPrices(fragment.price_elems)))
    ELSE coll

-----------------------------------------------------------------------------
(* The retailers.                                                           *)

Cat(category, url) == [category |-> category, url |-> url]

Retailers ==
    << [brand |-> "Bowflex",
        category_urls |->
          << Cat("Treadmills", "https://www.bowflex.com/treadmills/"),
             Cat("Indoor Cycling Bikes", "https://www.bowflex.com/bikes/"),
             Cat("Home Gyms", "https://www.bowflex.com/strength/"),
             Cat("Adjustable Dumbbells", "https://www.bowflex.com/selecttech/"),
             Cat("Ellipticals and Max Trainer",
                 "https://www.bowflex.com/max-trainer/") >>],
       [brand |-> "Horizon Fitness",
        category_urls |->
          << Cat("Treadmills", "https://www.horizonfitness.com/treadmills"),
             Cat("Indoor Cycling Bikes", "https://www.horizonfitness.com/bikes"),
             Cat("Ellipticals and Max Trainer",
                 "https://www.horizonfitness.com/ellipticals") >>],
       [brand |-> "Schwinn",
        category_urls |->
          << Cat("Treadmills", "https://www.schwinnfitness.com/treadmills"),
             Cat("Indoor Cycling Bikes", "https://www.schwinnfitness.com/bikes"),
             Cat("Ellipticals and Max Trainer",
                 "https://www.schwinnfitness.com/ellipticals") >>] >>

category_urls == Retailers[retailer].category_urls
Brand == Retailers[retailer].brand

\* Every category URL, in the order run visits them
RECURSIVE Flatten(_)
Flatten(ss) == IF ss = <<>> THEN <<>> ELSE Head(ss) \o Flatten(Tail(ss))

AllCategoryUrls ==
    Flatten([r \in 1..Len(Retailers) |->
               [i \in 1..Len(Retailers[r].category_urls) |->
                  [brand |-> Retailers[r].brand,
                   category |-> Retailers[r].category_urls[i].category,
                   url |-> Retailers[r].category_urls[i].url]]])

-----------------------------------------------------------------------------
(* What the servers serve: listing fragments and pages.                     *)

\* A candidate listing fragment: the text of its first heading/link with a
\* title|name|product class (titled) and of its first link (link), each <<>>
\* when there is none; the texts of its price elements in document order;
\* raises tells where the try body throws on it: "" for nowhere, "name" for
\* while the name is taken, "price" for in or after the loop over price_elems
Fragment(titled, link, price_elems, raises) ==
    [titled |-> titled, link |-> link, price_elems |-> price_elems,
     raises |-> raises]

MaxFragments == 12

Listing(i) ==
    CASE i = 1 -> Fragment(<<"Model A">>, <<"Model A">>,
                           <<Dollars(999, 0), Dollars(799, 0)>>, "")
      [] i = 2 -> Fragment(<<"Model B">>, <<>>, <<>>, "")
      [] i = 3 -> Fragment(<<"Bad C">>, <<>>,
                           <<Dollars(59, 99), Dollars(49, 99)>>, "price")
      [] i = 4 -> Fragment(<<"Gym D">>, <<>>,
                           <<Dollars(99, 99), Dollars(99, 99)>>, "")
      [] i = 5 -> Fragment(<<"Row E">>, <<>>,
                           <<Dollars(99, 99), Dollars(129, 99)>>, "")
      [] i = 6 -> Fragment(<<"Row F">>, <<>>,
                           <<Dollars(129, 99), Dollars(99, 99)>>, "")
      [] i = 7 -> Fragment(<<"Free G">>, <<>>, <<Dollars(0, 0)>>, "")
      [] i = 8 -> Fragment(<<>>, <<>>, <<Dollars(49, 99)>>, "")
      [] i = 9 -> Fragment(<<"Bad H">>, <<>>, <<Dollars(59, 99)>>, "name")
      [] i = 10 -> Fragment(<<>>, <<"Tread I">>, <<Dollars(1299, 99)>>, "")
      [] i = 11 -> Fragment(<<"Late J">>, <<>>,
                            <<(<<"C", "a", "l", "l">>), Whole(899)>>, "")
      [] i = 12 -> Fragment(<<"Late K">>, <<>>,
                            <<Whole(5), Dollars(3, 0), Whole(9)>>, "")
      [] OTHER -> Fragment(<<"Late L">>, <<>>, <<Dollars(i, 0)>>, "")

Cut(a, b) == [i \in 1..(b - a + 1) |-> Listing(a + i - 1)]

\* A page whose every fragment is a product with one price, i dollars for the
\* i-th
Catalogue ==
    [i \in 1..MaxFragments |-> Fragment(<<"Item">>, <<>>, <<Whole(i)>>, "")]

\* The pages: no fragment, the first two of the listing, all of it, the ones
\* past its first Limit, and the catalogue
Pages ==
    {Cut(1, 0), Cut(1, 2), Cut(1, MaxFragments), Cut(Limit + 1, MaxFragments),
     Catalogue}

-----------------------------------------------------------------------------
(* sample_products.json                                                     *)

JsonFile(top, items) == [st |-> "json", top |-> top, items |-> items]

GoodRow ==
    Dict(Str("Model A"), Str("Bowflex"), Str("Treadmills"), Num(99900), Num(79900))

SampleFiles ==
    { NoFile,
      [st |-> "garbled", top |-> "", items |-> <<>>],
      JsonFile("number", <<>>),
      JsonFile("null", <<>>),
      JsonFile("string", <<Scalar("str"), Scalar("str")>>),
      JsonFile("object", <<Scalar("str")>>),
      JsonFile("array", <<>>),
      JsonFile("array", <<GoodRow>>),
      JsonFile("array",
               <<GoodRow,
                 Dict(Str("Bike C"), Str("Schwinn"), Str("Indoor Cycling Bikes"),
                      Num(9999), Null)>>),
      JsonFile("array",
               <<Dict(Str("Model A"), Str("Bowflex"), Str("Treadmills"),
                      Num(99900), Absent)>>),
      JsonFile("array", <<Dict(Absent, Absent, Absent, Absent, Absent)>>),
      JsonFile("array",
               <<Dict(Str("Rower R"), Str("Concept2"), Str("Rowers"),
                      Num(99000), Null)>>),
      JsonFile("array",
               <<Dict(Str("Model A"), Str("Bowflex"), Str("Treadmills"),
                      Str("N/A"), Null)>>),
      JsonFile("array",
               <<Dict(Str("Gym D"), Str("Bowflex"), Str("Home Gyms"),
                      Num(50000), Num(60000))>>),
      JsonFile("array", <<GoodRow, Scalar("num")>>) }

\* The JSON values self.products.extend(data) can iterate
Iterable(top) == top \in {"array", "string", "object"}

\* self.products after load_from_file
load_from_file(coll, f) ==
    IF f.st = "json" /\ Iterable(f.top) THEN coll \o f.items ELSE coll

-----------------------------------------------------------------------------
(* fetch_page and the session's retry strategy.                             *)

total == 3

\* Variant of status_forcelist: 403 is retried too
status_forcelist_403 == {403, 429, 500, 502, 503, 504}

status_forcelist == {429, 500, 502, 503, 504}

\* No HTTP response: a connection error or a timeout
NoResponse == 0

Answers == {200, 403, 404, 503, NoResponse}

\* urllib3 sends another request after this answer when retries are left
Retried(answer) == answer = NoResponse \/ answer \in status_forcelist

\* response.raise_for_status() raises HTTPError
HttpError(answer) == answer >= 400 /\ answer < 600

\* The diagnostic fetch_page prints once session.get has ended with `answer`,
\* exhausted telling whether the retries ran out on it
Diagnostic(answer, exhausted) ==
    IF exhausted \/ answer = NoResponse THEN "Error fetching"
    ELSE IF HttpError(answer)
         THEN IF answer = 403 THEN "Access denied (403)" ELSE "HTTP error fetching"
         ELSE ""

-----------------------------------------------------------------------------
(* main                                                                     *)

Init ==
    /\ pc = "main"
    /\ sample \in BOOLEAN
    /\ web \in (IF sample THEN {<<>>} ELSE Pages)
    /\ file \in (IF sample THEN SampleFiles ELSE {NoFile})
    /\ retailer = 1
    /\ cat = 1
    /\ attempts = 0
    /\ status = NoResponse
    /\ diag = ""
    /\ fetched = <<>>
    /\ soup = <<>>
    /\ k = 1
    /\ prices = <<>>
    /\ products = <<>>
    /\ saved = <<>>
    /\ exitCode = -1
    /\ price_text = <<>>
    /\ price = Absent

\* run(use_sample_data=True): load_from_file("sample_products.json")
RunSample ==
    /\ pc = "main"
    /\ sample
    /\ products' = load_from_file(products, file)
    /\ pc' = "display"
    /\ UNCHANGED <<sample, web, file, retailer, cat, attempts, status, diag,
                   fetched, soup, k, prices, saved, exitCode, price_text, price>>

\* run(use_sample_data=False): enter scrape_bowflex
RunLive ==
    /\ pc = "main"
    /\ ~sample
    /\ pc' = "loop"
    /\ retailer' = 1
    /\ cat' = 1
    /\ UNCHANGED <<sample, web, file, attempts, status, diag, fetched, soup, k,
                   prices, products, saved, exitCode, price_text, price>>

\* for category, url in category_urls.items(): soup = self.fetch_page(url)
CallFetchPage ==
    /\ pc = "loop"
    /\ cat <= Len(category_urls)
    /\ pc' = "get"
    /\ attempts' = 0
    /\ status' = NoResponse
    /\ diag' = ""
    /\ UNCHANGED <<sample, web, file, retailer, cat, fetched, soup, k, prices,
                   products, saved, exitCode, price_text, price>>

\* Variant of AfterAbsent: break instead of continue
AfterAbsentBreak(c) == Len(category_urls) + 1

\* The index of the item the for loop goes to after fetch_page returned None
\* at item c (if not soup: continue)
AfterAbsent(c) == c + 1

\* One request of self.session.get, and, when it is the last one, the rest of
\* fetch_page and the caller's test of what it returned
SessionGet ==
    /\ pc = "get"
    /\ \E answer \in Answers :
         /\ status' = answer
         /\ IF Retried(answer) /\ attempts < total
            THEN /\ pc' = "get"
                 /\ attempts' = attempts + 1
                 /\ UNCHANGED <<diag, fetched, cat, soup, k>>
            ELSE LET d == Diagnostic(answer, Retried(answer))
                     entry == [url |-> category_urls[cat].url, ok |-> d = ""]
                 IN  /\ attempts' = 0
                     /\ diag' = d
                     /\ fetched' = Append(fetched, entry)
                     /\ IF d = ""
                        THEN /\ soup' = web
                             /\ k' = 1
                             /\ pc' = "fragments"
                             /\ cat' = cat
                        ELSE /\ soup' = <<>>
                             /\ k' = 1
                             /\ pc' = "loop"
                             /\ cat' = AfterAbsent(cat)
    /\ UNCHANGED <<sample, web, file, retailer, prices, products, saved,
                   exitCode, price_text, price>>

\* How many price elements the loop has been through when the try body is
\* left: all of them, or any number when the fragment throws there
Through(fragment) ==
    IF fragment.raises = "price"
    THEN 0..Len(fragment.price_elems)
    ELSE {Len(fragment.price_elems)}

\* One iteration of for product in products[:10]
ProcessFragment ==
    /\ pc = "fragments"
    /\ k <= Len(Candidates(soup))
    /\ LET fragment == Candidates(soup)[k]
           reached == fragment.raises # "name" /\ NameElem(fragment) # <<>>
       IN  /\ products' = AfterFragment(products, fragment, Brand,
                                        category_urls[cat].category)
           /\ \E n \in Through(fragment) :
                /\ prices' = IF reached
                             THEN CollectPrices(SubSeq(fragment.price_elems, 1, n))
                             ELSE prices
                /\ IF reached /\ n > 0
                   THEN /\ price_text' = fragment.price_elems[n]
                        /\ price' = extract_price(fragment.price_elems[n])
                   ELSE UNCHANGED <<price_text, price>>
    /\ k' = k + 1
    /\ UNCHANGED <<pc, sample, web, file, retailer, cat, attempts, status, diag,
                   fetched, soup, saved, exitCode>>

\* The for loop over products[:10] ends: on to the next category
EndPage ==
    /\ pc = "fragments"
    /\ k > Len(Candidates(soup))
    /\ pc' = "loop"
    /\ cat' = cat + 1
    /\ UNCHANGED <<sample, web, file, retailer, attempts, status, diag, fetched,
                   soup, k, prices, products, saved, exitCode, price_text, price>>

\* scrape_bowflex or scrape_horizon returns: run calls the next scrape_*
NextRetailer ==
    /\ pc = "loop"
    /\ cat > Len(category_urls)
    /\ retailer < Len(Retailers)
    /\ retailer' = retailer + 1
    /\ cat' = 1
    /\ UNCHANGED <<pc, sample, web, file, attempts, status, diag, fetched, soup,
                   k, prices, products, saved, exitCode, price_text, price>>

\* scrape_schwinn returns: run prints its hint when nothing was scraped, returns
RunEnd ==
    /\ pc = "loop"
    /\ cat > Len(category_urls)
    /\ retailer = Len(Retailers)
    /\ pc' = "display"
    /\ UNCHANGED <<sample, web, file, retailer, cat, attempts, status, diag,
                   fetched, soup, k, prices, products, saved, exitCode,
                   price_text, price>>

\* display_results prints the row of this element without raising:
\* product['Product'] and product['Category'] are subscripted and measured,
\* brand is formatted with a width, the prices go through format_price
RowPrints(e) ==
    /\ e.kind = "dict"
    /\ e.f["Product"].t = "str"
    /\ e.f["Brand"].t \in {"str", "num"}
    /\ e.f["Category"].t = "str"
    /\ e.f["MSRP"].t \in {"num", "null"}
    /\ e.f["Sale Price"].t \in {"num", "null"}

\* monitor.display_results(), then main's test of monitor.products
DisplayResults ==
    /\ pc = "display"
    /\ IF \E i \in 1..Len(products) : ~RowPrints(products[i])
       THEN pc' = "crashed" /\ exitCode' = 1
       ELSE IF products = <<>>
            THEN pc' = "done" /\ exitCode' = 0
            ELSE pc' = "save" /\ exitCode' = exitCode
    /\ UNCHANGED <<sample, web, file, retailer, cat, attempts, status, diag,
                   fetched, soup, k, prices, products, saved, price_text, price>>

\* monitor.save_to_json(), then main returns
SaveToJson ==
    /\ pc = "save"
    /\ saved' = products
    /\ pc' = "done"
    /\ exitCode' = 0
    /\ UNCHANGED <<sample, web, file, retailer, cat, attempts, status, diag,
                   fetched, soup, k, prices, products, price_text, price>>

Next ==
    \/ RunSample
    \/ RunLive
    \/ CallFetchPage
    \/ SessionGet
    \/ ProcessFragment
    \/ EndPage
    \/ NextRetailer
    \/ RunEnd
    \/ DisplayResults
    \/ SaveToJson

Spec == Init /\ [][Next]_vars

-----------------------------------------------------------------------------
(* Properties of the scrape loop.                                           *)

\* The step appends a record to the collection from inside the scrape loop
AppendsRecord == pc = "fragments" /\ Len(products') = Len(products) + 1

Distinct(ps) == {ps[i] : i \in 1..Len(ps)}

\* C2: in every record a scrape_* operation appends, the sale price is
\* present only when more than one distinct price was collected from the
\* fragment; collected prices that are all the same value give it absent.
C2_SalePriceOnlyWhenDistinct ==
    [][AppendsRecord =>
          (Last(products').f["Sale Price"] # Null
               => Cardinality(Distinct(prices')) > 1)]_vars

\* What the code does instead: the sale price is present exactly when more
\* than one price was collected, equal prices counted each time.
SalePriceWhenSeveralPrices ==
    [][AppendsRecord =>
          /\ prices' # <<>>
          /\ Last(products').f["Sale Price"] # Null <=> Len(prices') > 1
          /\ (Len(prices') > 1 /\ Cardinality(Distinct(prices')) = 1)
                 => Last(products').f["Sale Price"] = Num(prices'[1])]_vars

\* C3: in every record a scrape_* operation appended, MSRP is the largest and
\* the sale price (when present) the smallest of the prices collected, so
\* sale price <= MSRP throughout the collection, and the record is the same
\* for every order of the collected prices.
C3_MsrpMaxSaleMin ==
    [][~sample =>
          /\ \A i \in 1..Len(products') :
               products'[i].f["Sale Price"] # Null
                   => products'[i].f["Sale Price"].n <= products'[i].f["MSRP"].n
          /\ AppendsRecord =>
               LET new == Last(products').f
               IN  /\ prices' # <<>>
                   /\ new["MSRP"].t = "num"
                   /\ \A i \in 1..Len(prices') : prices'[i] <= new["MSRP"].n
                   /\ \E i \in 1..Len(prices') : prices'[i] = new["MSRP"].n
                   /\ new["Sale Price"] # Null =>
                        /\ \A i \in 1..Len(prices') :
                             prices'[i] >= new["Sale Price"].n
                        /\ \E i \in 1..Len(prices') :
                             prices'[i] = new["Sale Price"].n
                   /\ \A pi \in Permutations(1..Len(prices')) :
                        Record(new["Product"].s, new["Brand"].s,
                               new["Category"].s,
                               [i \in 1..Len(prices') |-> prices'[pi[i]]])
                            = Last(products')]_vars

C3_Witness ==
    /\ ~sample
    /\ pc = "fragments"
    /\ k = 6
    /\ prices = <<9999, 12999>>
    /\ Last(products).f["Product"] = Str("Row E")
    /\ Last(products).f["MSRP"] = Num(12999)
    /\ Last(products).f["Sale Price"] = Num(9999)

\* The fragment the loop is at has a name element and exactly one price
\* element, whose text extract_price parses to a number, and nothing throws
AtOnePriceFragment ==
    /\ pc = "fragments"
    /\ k <= Len(soup)
    /\ k <= 10
    /\ soup[k].raises = ""
    /\ (soup[k].titled # <<>> \/ soup[k].link # <<>>)
    /\ Len(soup[k].price_elems) = 1
    /\ extract_price(soup[k].price_elems[1]).t = "num"

\* C4: a fragment with a name element and exactly one price element whose
\* text extract_price parses to a number p, zero included, gets exactly one
\* record, with MSRP p and no sale price, and p is in the price list.
C4_OnePriceOneRecord ==
    [][AtOnePriceFragment =>
          /\ prices' = <<extract_price(soup[k].price_elems[1]).n>>
          /\ Len(products') = Len(products) + 1
          /\ SubSeq(products', 1, Len(products)) = products
          /\ Last(products').f["MSRP"] = extract_price(soup[k].price_elems[1])
          /\ Last(products').f["Sale Price"] = Null]_vars

-----------------------------------------------------------------------------
(* Properties of a run.                                                     *)

RunOver == pc \in {"display", "save", "done", "crashed"}

\* The records the scrape loop extracts from a page's fragments
RECURSIVE PageRecords(_, _, _, _)
PageRecords(coll, fragments, brand, category) ==
    IF fragments = <<>> THEN coll
    ELSE PageRecords(AfterFragment(coll, Head(fragments), brand, category),
                     Tail(fragments), brand, category)

\* Those records under another brand and category
Tagged(records, brand, category) ==
    [i \in 1..Len(records) |->
       Dict(records[i].f["Product"], Str(brand), Str(category),
            records[i].f["MSRP"], records[i].f["Sale Price"])]

\* The records of the first n category URLs, given which of them loaded and
\* the records a loaded page gives
RECURSIVE Harvest(_, _)
Harvest(n, yield) ==
    IF n = 0 THEN <<>>
    ELSE Harvest(n - 1, yield)
         \o (IF fetched[n].ok
             THEN Tagged(yield, AllCategoryUrls[n].brand,
                         AllCategoryUrls[n].category)
             ELSE <<>>)

\* C5: in a live run a failed fetch skips only its category: when the run
\* ends every category URL of the three retailers has been fetched, in order,
\* and the collection holds the records of every page that loaded.
C5_FailedFetchSkipsOnlyItsCategory ==
    (~sample /\ RunOver) =>
        /\ Len(fetched) = Len(AllCategoryUrls)
        /\ \A i \in 1..Len(fetched) : fetched[i].url = AllCategoryUrls[i].url
        /\ LET yield == PageRecords(<<>>, Candidates(web), "", "")
           IN  products = Harvest(Len(fetched), yield)

C5_Witness ==
    /\ ~sample
    /\ pc = "done"
    /\ Len(fetched) = Len(AllCategoryUrls)
    /\ ~fetched[1].ok
    /\ fetched[2].ok
    /\ ~fetched[5].ok
    /\ ~fetched[6].ok
    /\ fetched[Len(fetched)].ok
    /\ web = Cut(1, 2)
    /\ Len(products) = 2
    /\ products[1].f["Brand"] = Str("Bowflex")
    /\ products[2].f["Brand"] = Str("Schwinn")

\* C6: every run of main, live or --sample, ends reporting without an
\* uncaught error and exits 0, whatever the fetches answer and whatever
\* sample_products.json holds.
C6_AlwaysExitsZero ==
    /\ pc # "crashed"
    /\ exitCode \in {-1, 0}

\* C7: every record in the collection has a category that is one of the five
\* labels of self.categories, in live and in --sample mode.
C7_CategoryInClosedSet ==
    \A i \in 1..Len(products) :
        (products[i].kind = "dict" /\ products[i].f["Category"].t = "str")
            => products[i].f["Category"].s \in categories

\* C8: a 403 answer ends fetch_page: no further request is sent for the URL,
\* the diagnostic is the access-denied one, nothing is raised, absent is
\* returned, and the caller goes on to the next category.
C8_ForbiddenIsNotRetried ==
    [][(pc = "get" /\ status' = 403) =>
          /\ pc' = "loop"
          /\ attempts' = 0
          /\ diag' = "Access denied (403)"
          /\ diag' # "HTTP error fetching"
          /\ soup' = <<>>
          /\ Len(fetched') = Len(fetched) + 1
          /\ Last(fetched') = [url |-> category_urls[cat].url, ok |-> FALSE]
          /\ retailer' = retailer
          /\ cat' = cat + 1
          /\ products' = products
          /\ exitCode' = -1]_vars

C8_Witness ==
    /\ pc = "loop"
    /\ status = 403
    /\ diag = "Access denied (403)"
    /\ fetched # <<>>
    /\ ~Last(fetched).ok
    /\ cat = 2

\* The number of pages that loaded
Loaded == Cardinality({i \in 1..Len(fetched) : fetched[i].ok})

\* Fragment j of the page is a product that none of the first 10 is
LateProduct(j) ==
    /\ j > 10
    /\ j <= Len(web)
    /\ Appends(web[j])
    /\ \A m \in 1..10 : m <= Len(web) => web[m] # web[j]

\* C9: only the first 10 candidate fragments of a page are passed to
\* extraction: a page adds at most 10 records however many fragments it has,
\* and a product found only in the 11th or a later fragment gives no record.
C9_FirstTenFragmentsOnly ==
    ~sample =>
        /\ pc = "fragments" => k <= 11
        /\ Len(products) <= 10 * Loaded
        /\ \A j \in 11..Len(web) :
             LateProduct(j) =>
                 LET name == Str(NameElem(web[j])[1])
                     msrp == Num(Max(CollectPrices(web[j].price_elems)))
                 IN  \A i \in 1..Len(products) :
                         ~(/\ products[i].f["Product"] = name
                           /\ products[i].f["MSRP"] = msrp)

C9_Witness ==
    /\ ~sample
    /\ pc = "loop"
    /\ web = Catalogue
    /\ Len(web) > 10
    /\ LateProduct(11)
    /\ Loaded = 1
    /\ Len(products) = 10
    /\ k = 11

IsPrefix(a, b) == Len(a) <= Len(b) /\ SubSeq(b, 1, Len(a)) = a

\* The fragment the loop is at yields no record: it has no name element, or
\* no price was collected from it, or extraction throws
AtSkippedFragment ==
    /\ pc = "fragments"
    /\ k <= Len(soup)
    /\ k <= 10
    /\ \/ soup[k].raises # ""
       \/ soup[k].titled = <<>> /\ soup[k].link = <<>>
       \/ \A i \in 1..Len(soup[k].price_elems) :
            ~Truthy(extract_price(soup[k].price_elems[i]))

\* C10: the collection is append-only: every step leaves it unchanged or adds
\* records at its end; display_results and save_to_json leave it unchanged;
\* so do a skipped fragment and a category whose fetch fails.
C10_CollectionAppendOnly ==
    [][/\ IsPrefix(products, products')
       /\ RunOver => products' = products
       /\ AtSkippedFragment => products' = products
       /\ pc = "get" => products' = products]_vars

C10_Witness ==
    /\ pc = "fragments"
    /\ soup = Cut(1, 2)
    /\ k = 3
    /\ Len(products) = 2
    /\ Len(fetched) > 2
    /\ ~fetched[Len(fetched) - 1].ok

====
